---- MODULE Spec2Model ----
(***************************************************************************)
(* Portfolio / risk engine and trading-step state machine of the           *)
(* multi-asset trading simulator (portfolio.py, mock_portfolio.py,         *)
(* agent.py).                                                              *)
(*                                                                         *)
(* Real numbers are kept in fixed point:                                   *)
(*   money      in 1/MoneyUnit  of a currency unit (mills),                *)
(*   prices     in 1/PriceUnit  of a currency unit (cents),                *)
(*   quantities in 1/QtyUnit    of an asset unit   (hundredths),           *)
(*   risk_limit in 1/RiskUnit, growth_limit in 1/GrowthUnit,               *)
(*   actions    in 1/ActionUnit, trend strength in 1/TrendUnit,            *)
(*   rewards    in 1/RewardUnit, observations in 1/ObsUnit.                *)
(* Products and quotients round toward minus infinity at the unit of the   *)
(* result; the inputs drawn below keep the direct buy/sell arithmetic      *)
(* exact.                                                                  *)
(***************************************************************************)
EXTENDS Integers, Sequences, FiniteSets, TLC

VARIABLES portfolio, current_step, calls, ret, nops

vars == <<portfolio, current_step, calls, ret, nops>>

---------------------------------------------------------------------------
(* Fixed-point units *)

MoneyUnit == 1000
PriceUnit == 100
QtyUnit == 100
RiskUnit == 1000000
GrowthUnit == 1000
ActionUnit == 20
TrendUnit == 10
RewardUnit == 1000
ObsUnit == 1000

(* Program constants *)

\* balance = 10000 at construction, in mills
InitialBalance == 10000000
\* fee_rate = 0.001 = FeeNum / FeeDen
FeeNum == 1
FeeDen == 1000
\* risk_limit = 0.05 at construction, in 1/RiskUnit
InitialRiskLimit == 50000
\* growth_limit = 0.2 at construction, in 1/GrowthUnit
InitialGrowthLimit == 200
\* clamps of adjust_risk_limit: 0.1, 0.01, 0.05
RiskMax == 100000
RiskMin == 10000
RiskVolFloor == 50000
\* clamp and coefficients of adjust_growth_limit: 0.8, 0.3, 0.5
GrowthMax == 800
GrowthBase == 300
GrowthSlope == 500

(* Bounds of the model *)

\* number of operations explored from construction
MaxOps == 3
\* number of bars of the shared timeline
NumBars == 3
\* longest vector handed to _normalize on its own
MaxVecLen == 3

---------------------------------------------------------------------------
(* Inputs *)

Assets == <<"BTC", "ETH">>
Symbols == {Assets[i] : i \in 1..Len(Assets)}

\* prices passed to direct buy / sell calls, in cents (100.00, 120.00)
Prices == {10000, 12000}
\* quantities passed to direct buy / sell calls, in hundredths (0, 5, 10, 200)
Quantities == {0, 500, 1000, 20000}
\* outcomes of np.random.uniform(-0.01, 0.01), in percent
SlipPercents == {-1, 0, 1}
\* agent actions per asset, in 1/ActionUnit: -1, 0, 0.05
ActionValues == {-20, 0, 1}
\* trend strengths, in 1/TrendUnit: 0, 0.5, 1
TrendValues == {0, 5, 10}
\* performance values (only the sign is read)
PerformanceValues == {-1, 1}
\* volatilities, in 1/1000: 0.02, 0.03
VolatilityValues == {20, 30}

\* a value standing for an attribute the object does not have
NoAttr == -1

Min(a, b) == IF a <= b THEN a ELSE b
Max(a, b) == IF a >= b THEN a ELSE b

\* a/b < c/d for a, c >= 0 and b, d > 0, without forming the cross products
RECURSIVE FracLess(_, _, _, _)
FracLess(a, b, c, d) ==
    LET qa == a \div b
        qc == c \div d
        ra == a % b
        rc == c % d
    IN  IF qa # qc THEN qa < qc
        ELSE IF rc = 0 THEN FALSE
        ELSE IF ra = 0 THEN TRUE
        ELSE FracLess(d, rc, b, ra)

\* dict.get(symbol, 0)
Get(h, symbol) == IF symbol \in DOMAIN h THEN h[symbol] ELSE 0

\* h[symbol] = v
Put(h, symbol, v) ==
    [s \in (DOMAIN h) \cup {symbol} |-> IF s = symbol THEN v ELSE h[s]]

\* del h[symbol]
Del(h, symbol) == [s \in (DOMAIN h) \ {symbol} |-> h[s]]

EmptyHoldings == [s \in {} |-> 0]

\* floor(a * b / c) for a, b >= 0 and c > 0, without forming a * b
MulDiv(a, b, c) == (a \div c) * b + ((a % c) * b) \div c

\* price * quantity, in mills
Notional(price, quantity) == MulDiv(quantity, price, 10)

\* x * (1 + fee_rate)
WithFee(x) == x + MulDiv(x, FeeNum, FeeDen)

\* sale proceeds without the fee deducted
LessFee_NoFee(x) == x

\* x * (1 - fee_rate)
LessFee(x) == MulDiv(x, FeeDen - FeeNum, FeeDen)

---------------------------------------------------------------------------
(* Results of a call: out is "ok" or the error raised, p the portfolio after *)

ValueErrors ==
    {"RiskExceeded", "GrowthLimitExceeded", "InsufficientBalance",
     "InsufficientHoldings", "TradingHalted"}

Result(out, p) == [out |-> out, p |-> p]

(* EnhancedPortfolio *)

EnhancedInit ==
    [kind |-> "enhanced", balance |-> InitialBalance, holdings |-> EmptyHoldings,
     risk_limit |-> InitialRiskLimit, growth_limit |-> InitialGrowthLimit,
     trading_active |-> TRUE, previous_value |-> NoAttr]

\* performance attribute: set to 0 at construction and never assigned again
Performance == 0

\* adjust_risk_limit without the upper clamp of the low-volatility branch
AdjustRiskLimit_NoUpperClamp(p, performance, volatility) ==
    LET r1 == IF performance > 0
              THEN Min(RiskMax, (p.risk_limit * 11) \div 10)
              ELSE Max(RiskMin, (p.risk_limit * 9) \div 10)
        r2 == IF volatility > 20
              THEN Max(RiskVolFloor, (r1 * 9) \div 10)
              ELSE (r1 * 105) \div 100
    IN  [p EXCEPT !.risk_limit = r2]

AdjustRiskLimit(p, performance, volatility) ==
    LET r1 == IF performance > 0
              THEN Min(RiskMax, (p.risk_limit * 11) \div 10)
              ELSE Max(RiskMin, (p.risk_limit * 9) \div 10)
        r2 == IF volatility > 20
              THEN Max(RiskVolFloor, (r1 * 9) \div 10)
              ELSE Min(RiskMax, (r1 * 105) \div 100)
    IN  [p EXCEPT !.risk_limit = r2]

AdjustGrowthLimit(p, trend_strength) ==
    [p EXCEPT !.growth_limit =
        Min(GrowthMax, GrowthBase + (GrowthSlope * trend_strength) \div TrendUnit)]

\* price * (1 + u) with u the uniform draw, in percent
ApplySlippage(price, slip) == (price * (100 + slip)) \div 100

\* risk > risk_limit, with risk = price * quantity / balance (balance > 0)
RiskAbove(p, price, quantity) ==
    FracLess(p.risk_limit, RiskUnit, Notional(price, quantity), p.balance)

\* sum(qty * price for qty, price in self.holdings.items()) multiplies each
\* symbol (a string) by its quantity: a TypeError as soon as one symbol is held
HoldingsSumRaises(p) == DOMAIN p.holdings # {}

\* can_invest_more where the sum over holdings.items() is the empty sum, 0
CanInvestMore(p, symbol, price, quantity) ==
    LET current_value == Notional(price, Get(p.holdings, symbol))
        new_value == current_value + Notional(price, quantity)
        total_portfolio_value == p.balance
    IN  ~FracLess(p.growth_limit, GrowthUnit, new_value, total_portfolio_value)

\* buy without the risk check
EnhancedBuy_NoRiskCheck(p, symbol, price0, quantity, slip) ==
    LET price == ApplySlippage(price0, slip)
        total_cost == WithFee(Notional(price, quantity))
    IN  IF p.balance = 0 THEN Result("ZeroDivisionError", p)
        ELSE IF HoldingsSumRaises(p) THEN Result("TypeError", p)
        ELSE IF ~CanInvestMore(p, symbol, price, quantity)
             THEN Result("GrowthLimitExceeded", p)
        ELSE IF total_cost > p.balance THEN Result("InsufficientBalance", p)
        ELSE Result("ok",
                [p EXCEPT !.balance = @ - total_cost,
                          !.holdings = Put(@, symbol, Get(@, symbol) + quantity)])

EnhancedBuy(p, symbol, price0, quantity, slip) ==
    LET price == ApplySlippage(price0, slip)
        total_cost == WithFee(Notional(price, quantity))
    IN  IF p.balance = 0 THEN Result("ZeroDivisionError", p)
        ELSE IF RiskAbove(p, price, quantity) THEN Result("RiskExceeded", p)
        ELSE IF HoldingsSumRaises(p) THEN Result("TypeError", p)
        ELSE IF ~CanInvestMore(p, symbol, price, quantity)
             THEN Result("GrowthLimitExceeded", p)
        ELSE IF total_cost > p.balance THEN Result("InsufficientBalance", p)
        ELSE Result("ok",
                [p EXCEPT !.balance = @ - total_cost,
                          !.holdings = Put(@, symbol, Get(@, symbol) + quantity)])

\* sell that only checks that the symbol is held, not how much of it
EnhancedSell_MembershipOnly(p, symbol, price0, quantity, slip) ==
    IF symbol \notin DOMAIN p.holdings
    THEN Result("InsufficientHoldings", p)
    ELSE LET price == ApplySlippage(price0, slip)
             total_value == Notional(price, quantity)
         IN  Result("ok",
                [p EXCEPT !.balance = @ + LessFee(total_value),
                          !.holdings = Put(@, symbol, @[symbol] - quantity)])

EnhancedSell(p, symbol, price0, quantity, slip) ==
    IF symbol \notin DOMAIN p.holdings \/ p.holdings[symbol] < quantity
    THEN Result("InsufficientHoldings", p)
    ELSE LET price == ApplySlippage(price0, slip)
             total_value == Notional(price, quantity)
         IN  Result("ok",
                [p EXCEPT !.balance = @ + LessFee(total_value),
                          !.holdings = Put(@, symbol, @[symbol] - quantity)])

StopTrading(p) == [p EXCEPT !.trading_active = FALSE]

(* MockPortfolio: no risk_limit, growth_limit or slippage *)

MockInit ==
    [kind |-> "mock", balance |-> InitialBalance, holdings |-> EmptyHoldings,
     risk_limit |-> NoAttr, growth_limit |-> NoAttr, trading_active |-> TRUE,
     previous_value |-> NoAttr]

MockReset(p) ==
    [p EXCEPT !.balance = InitialBalance, !.holdings = EmptyHoldings,
              !.trading_active = TRUE]

\* buy without the balance check
MockBuy_NoBalanceCheck(p, symbol, price, quantity) ==
    LET total_cost == WithFee(Notional(price, quantity))
    IN  IF ~p.trading_active THEN Result("TradingHalted", p)
        ELSE Result("ok",
                [p EXCEPT !.balance = @ - total_cost,
                          !.holdings = Put(@, symbol, Get(@, symbol) + quantity)])

MockBuy(p, symbol, price, quantity) ==
    LET total_cost == WithFee(Notional(price, quantity))
    IN  IF ~p.trading_active THEN Result("TradingHalted", p)
        ELSE IF total_cost > p.balance THEN Result("InsufficientBalance", p)
        ELSE Result("ok",
                [p EXCEPT !.balance = @ - total_cost,
                          !.holdings = Put(@, symbol, Get(@, symbol) + quantity)])

MockSell(p, symbol, price, quantity) ==
    IF ~p.trading_active THEN Result("TradingHalted", p)
    ELSE IF symbol \notin DOMAIN p.holdings \/ p.holdings[symbol] < quantity
    THEN Result("InsufficientHoldings", p)
    ELSE LET total_value == LessFee(Notional(price, quantity))
             left == p.holdings[symbol] - quantity
         IN  Result("ok",
                [p EXCEPT !.balance = @ + total_value,
                          !.holdings = IF left = 0 THEN Del(@, symbol)
                                       ELSE Put(@, symbol, left)])

(* self.portfolio.<method>(...) on whichever portfolio the session holds; a *)
(* method the object lacks raises AttributeError                           *)

Buy(p, symbol, price, quantity, slip) ==
    IF p.kind = "enhanced" THEN EnhancedBuy(p, symbol, price, quantity, slip)
    ELSE MockBuy(p, symbol, price, quantity)

Sell(p, symbol, price, quantity, slip) ==
    IF p.kind = "enhanced" THEN EnhancedSell(p, symbol, price, quantity, slip)
    ELSE MockSell(p, symbol, price, quantity)

Reset(p) ==
    IF p.kind = "mock" THEN Result("ok", MockReset(p))
    ELSE Result("AttributeError", p)

SetGrowthLimit(p, trend_strength) ==
    IF p.kind = "enhanced" THEN Result("ok", AdjustGrowthLimit(p, trend_strength))
    ELSE Result("AttributeError", p)

\* rebalance_portfolio: one pass over market_data in insertion order
RECURSIVE Rebalance(_, _, _)
Rebalance(p, market_data, i) ==
    IF i > Len(Assets) THEN p
    ELSE LET row == market_data[Assets[i]]
             p1 == AdjustRiskLimit(p, Performance, row.volatility)
             p2 == AdjustGrowthLimit(p1, row.trend_strength)
             p3 == [p2 EXCEPT !.balance =
                        MulDiv(@, GrowthUnit - p2.growth_limit, GrowthUnit)]
         IN  Rebalance(p3, market_data, i + 1)

---------------------------------------------------------------------------
(* MultiAssetTradingEnv *)

\* close prices of the bars, in cents, repeating every three bars
ClosePattern ==
    [BTC |-> <<10000, 10000, 12000>>, ETH |-> <<5000, 5000, 4000>>]

\* historical_data[asset].iloc[t]['close'] for 0 <= t < NumBars
Close(asset, t) == ClosePattern[asset][(t % 3) + 1]

\* historical_data[asset].iloc[t].get('ADX', 0): BTC carries ADX = 25,
\* ETH has no ADX column
ADX(asset, t) == IF asset = "BTC" THEN 250 ELSE 0

\* ActionUnit * MoneyUnit / (QtyUnit * PriceUnit): units of action * balance / price
StepScale == (ActionUnit * MoneyUnit) \div (QtyUnit * PriceUnit)

\* one portfolio call with the portfolio before and after it
Call(op, symbol, price, quantity, slip, before, r) ==
    [op |-> op, symbol |-> symbol, price |-> price, quantity |-> quantity,
     slip |-> slip, out |-> r.out, before |-> before, after |-> r.p]

\* buy quantity taken from the balance the portfolio was constructed with
BuyQuantity_OfInitialBalance(p, a, price) ==
    MulDiv(InitialBalance, a, StepScale * price)

\* quantity = action[i] * self.portfolio.balance / price
BuyQuantity(p, a, price) == MulDiv(p.balance, a, StepScale * price)

\* quantity = -action[i] * self.portfolio.holdings.get(asset, 0)
SellQuantity(p, asset, a) == MulDiv(Get(p.holdings, asset), -a, ActionUnit)

\* the per-asset loop of step, from asset i on; raised is the exception that
\* leaves the loop uncaught, "none" when the loop completes
RECURSIVE StepLoop(_, _, _, _, _, _)
StepLoop(i, p, cs, action, slips, step) ==
    IF i > Len(Assets) THEN [p |-> p, calls |-> cs, raised |-> "none"]
    ELSE IF step >= NumBars THEN [p |-> p, calls |-> cs, raised |-> "IndexError"]
    ELSE
      LET asset == Assets[i]
          price == Close(asset, step)
          g == SetGrowthLimit(p, ADX(asset, step))
      IN  IF g.out # "ok" THEN [p |-> p, calls |-> cs, raised |-> g.out]
          ELSE IF action[i] = 0
               THEN StepLoop(i + 1, g.p, cs, action, slips, step)
          ELSE
            LET quantity ==
                    IF action[i] > 0
                    THEN BuyQuantity(g.p, action[i], price)
                    ELSE SellQuantity(g.p, asset, action[i])
                r == IF action[i] > 0
                     THEN Buy(g.p, asset, price, quantity, slips[i])
                     ELSE Sell(g.p, asset, price, quantity, slips[i])
                c == Call(IF action[i] > 0 THEN "buy" ELSE "sell",
                          asset, price, quantity, slips[i], g.p, r)
            IN  IF r.out = "ok" \/ r.out \in ValueErrors
                THEN StepLoop(i + 1, r.p, Append(cs, c), action, slips, step)
                ELSE [p |-> r.p, calls |-> Append(cs, c), raised |-> r.out]

\* the columns of bar t after the identifier column (timestamp): close, high,
\* low, volume, open, all in hundredths, then the indicator column where
\* _add_indicators succeeded (BTC); for ETH it failed and the data is left
\* without indicator columns
Row(asset, t) ==
    LET close == Close(asset, t)
        open == IF t = 0 THEN close ELSE Close(asset, t - 1)
        bar == <<close, close + 100, close - 100, 50000, open>>
    IN  IF asset = "BTC" THEN Append(bar, ADX(asset, t) * (PriceUnit \div TrendUnit))
        ELSE bar

\* historical_data[asset].shape[1]
NumColumns(asset) == 1 + Len(Row(asset, 0))

\* observation_space.shape[0], declared from the first asset's columns
ObservationShape == Len(Assets) * (NumColumns(Assets[1]) - 1)

Zeros(n) == [i \in 1..n |-> 0]

\* _normalize without the final shift by -1, scaling to [0, 2]
Normalize_NoShift(data) ==
    LET values == {data[i] : i \in 1..Len(data)}
        min_data == CHOOSE m \in values : \A x \in values : m <= x
        max_data == CHOOSE m \in values : \A x \in values : m >= x
    IN  IF max_data = min_data THEN Zeros(Len(data))
        ELSE [i \in 1..Len(data) |->
                (2 * (data[i] - min_data) * ObsUnit) \div (max_data - min_data)]

\* _normalize: min-max scaling to [-1, 1] in ObsUnit, zeros when max = min
Normalize(data) ==
    LET values == {data[i] : i \in 1..Len(data)}
        min_data == CHOOSE m \in values : \A x \in values : m <= x
        max_data == CHOOSE m \in values : \A x \in values : m >= x
    IN  IF max_data = min_data THEN Zeros(Len(data))
        ELSE [i \in 1..Len(data) |->
                (2 * (data[i] - min_data) * ObsUnit) \div (max_data - min_data)
                - ObsUnit]

\* np.concatenate of the normalized rows of assets i.. at bar t
RECURSIVE Concatenate(_, _)
Concatenate(i, t) ==
    IF i > Len(Assets) THEN <<>>
    ELSE Normalize(Row(Assets[i], t)) \o Concatenate(i + 1, t)

\* the concatenated rows of every bar of the timeline
Observations == [t \in 0..(NumBars - 1) |-> Concatenate(1, t)]

\* _get_observation at current_step = t: iloc past the last bar raises
\* IndexError, which is caught and replaced by zeros of the declared shape
GetObservation(t) ==
    IF t >= NumBars THEN Zeros(ObservationShape)
    ELSE Observations[t]

\* portfolio.get_total_value(current_prices): EnhancedPortfolio has no such
\* method (AttributeError) and MockPortfolio.get_total_value takes no argument
\* (TypeError)
GetTotalValue(p, current_prices) ==
    IF p.kind = "mock" THEN [out |-> "TypeError", value |-> 0]
    ELSE [out |-> "AttributeError", value |-> 0]

\* _calculate_reward that lets the exception of its try block escape
CalculateReward_Propagates(p, step) ==
    LET v == GetTotalValue(p, [asset \in Symbols |-> Close(asset, step)])
        error == IF v.out # "ok" THEN v.out
                 ELSE IF p.previous_value = NoAttr THEN "AttributeError"
                 ELSE IF p.kind = "mock" THEN "AttributeError"
                 ELSE "TypeError"
    IN  [reward |-> -RewardUnit, p |-> p, error |-> error, raised |-> error]

\* _calculate_reward: every path through the try block raises.  After
\* get_total_value would come the read of previous_value (AttributeError while
\* unset) and adjust_risk_limit(reward), which MockPortfolio lacks
\* (AttributeError) and EnhancedPortfolio defines with two parameters
\* (TypeError).  error is the exception caught; the reward is -1 and nothing
\* is assigned.
CalculateReward(p, step) ==
    LET v == GetTotalValue(p, [asset \in Symbols |-> Close(asset, step)])
        error == IF v.out # "ok" THEN v.out
                 ELSE IF p.previous_value = NoAttr THEN "AttributeError"
                 ELSE IF p.kind = "mock" THEN "AttributeError"
                 ELSE "TypeError"
    IN  [reward |-> -RewardUnit, p |-> p, error |-> error, raised |-> "none"]

\* done of a step that ran off by one, true only past the last bar
StepDone_PastLastBar(step) == step >= NumBars

\* done = current_step >= len(historical_data[assets[0]]) - 1
StepDone(step) == step >= NumBars - 1

\* what an operation hands back: the exception it raised, if any, and for a
\* step or reset that returns, its results
Returned(op, raised, reward, done) ==
    [op |-> op, raised |-> raised, reward |-> reward, done |-> done,
     truncated |-> FALSE, reward_error |-> "none", obs |-> <<>>,
     action |-> <<>>]

---------------------------------------------------------------------------
(* State machine *)

\* The session holds one portfolio, an EnhancedPortfolio or a MockPortfolio as
\* its constructor leaves it, and an environment at current_step = 0.
Init ==
    /\ portfolio \in {EnhancedInit, MockInit}
    /\ current_step = 0
    /\ calls = <<>>
    /\ ret = Returned("init", "none", 0, FALSE)
    /\ nops = 0

Slips == IF portfolio.kind = "enhanced" THEN SlipPercents ELSE {0}

Raised(out) == IF out = "ok" THEN "none" ELSE out

DoBuy ==
    /\ nops < MaxOps
    /\ \E symbol \in Symbols, price \in Prices, quantity \in Quantities, slip \in Slips :
           LET r == Buy(portfolio, symbol, price, quantity, slip)
           IN  /\ portfolio' = r.p
               /\ calls' = <<Call("buy", symbol, price, quantity, slip, portfolio, r)>>
               /\ ret' = Returned("buy", Raised(r.out), 0, FALSE)
               /\ nops' = nops + 1
               /\ UNCHANGED current_step

DoSell ==
    /\ nops < MaxOps
    /\ \E symbol \in Symbols, price \in Prices, quantity \in Quantities, slip \in Slips :
           LET r == Sell(portfolio, symbol, price, quantity, slip)
           IN  /\ portfolio' = r.p
               /\ calls' = <<Call("sell", symbol, price, quantity, slip, portfolio, r)>>
               /\ ret' = Returned("sell", Raised(r.out), 0, FALSE)
               /\ nops' = nops + 1
               /\ UNCHANGED current_step

DoAdjustRiskLimit ==
    /\ nops < MaxOps
    /\ \E performance \in PerformanceValues, volatility \in VolatilityValues :
           LET r == Result("ok", AdjustRiskLimit(portfolio, performance, volatility))
           IN  /\ portfolio.kind = "enhanced"
               /\ portfolio' = r.p
               /\ calls' = <<Call("adjust_risk_limit", "", 0, 0, 0, portfolio, r)>>
               /\ ret' = Returned("adjust_risk_limit", "none", 0, FALSE)
               /\ nops' = nops + 1
               /\ UNCHANGED current_step

DoAdjustGrowthLimit ==
    /\ nops < MaxOps
    /\ \E trend_strength \in TrendValues :
           LET r == Result("ok", AdjustGrowthLimit(portfolio, trend_strength))
           IN  /\ portfolio.kind = "enhanced"
               /\ portfolio' = r.p
               /\ calls' = <<Call("adjust_growth_limit", "", 0, 0, 0, portfolio, r)>>
               /\ ret' = Returned("adjust_growth_limit", "none", 0, FALSE)
               /\ nops' = nops + 1
               /\ UNCHANGED current_step

RebalanceRows ==
    {[volatility |-> 0, trend_strength |-> 0], [volatility |-> 30, trend_strength |-> 10]}

DoRebalance ==
    /\ nops < MaxOps
    /\ \E market_data \in [Symbols -> RebalanceRows] :
           LET r == Result("ok", Rebalance(portfolio, market_data, 1))
           IN  /\ portfolio.kind = "enhanced"
               /\ portfolio' = r.p
               /\ calls' = <<Call("rebalance_portfolio", "", 0, 0, 0, portfolio, r)>>
               /\ ret' = Returned("rebalance_portfolio", "none", 0, FALSE)
               /\ nops' = nops + 1
               /\ UNCHANGED current_step

DoStopTrading ==
    LET r == Result("ok", StopTrading(portfolio))
    IN  /\ nops < MaxOps
        /\ portfolio.kind = "enhanced"
        /\ portfolio' = r.p
        /\ calls' = <<Call("stop_trading", "", 0, 0, 0, portfolio, r)>>
        /\ ret' = Returned("stop_trading", "none", 0, FALSE)
        /\ nops' = nops + 1
        /\ UNCHANGED current_step

\* MultiAssetTradingEnv.reset: current_step is assigned before portfolio.reset()
EnvReset ==
    LET r == Reset(portfolio)
    IN  /\ nops < MaxOps
        /\ current_step' = 0
        /\ portfolio' = r.p
        /\ calls' = <<Call("reset", "", 0, 0, 0, portfolio, r)>>
        /\ ret' = IF r.out = "ok"
                  THEN [Returned("reset", "none", 0, FALSE)
                          EXCEPT !.obs = GetObservation(0)]
                  ELSE Returned("reset", r.out, 0, FALSE)
        /\ nops' = nops + 1

\* MultiAssetTradingEnv.step
EnvStep ==
    /\ nops < MaxOps
    /\ \E action \in [1..Len(Assets) -> ActionValues], slips \in [1..Len(Assets) -> Slips] :
           LET step == current_step + 1
               r == StepLoop(1, portfolio, <<>>, action, slips, step)
               w == CalculateReward(r.p, step)
           IN  /\ current_step <= NumBars
               \* no draw is made for an asset that does not trade
               /\ \A i \in 1..Len(Assets) : action[i] = 0 => slips[i] = 0
               /\ current_step' = step
               /\ calls' = r.calls
               /\ IF r.raised # "none"
                  THEN /\ portfolio' = r.p
                       /\ ret' = [Returned("step", r.raised, 0, FALSE)
                                     EXCEPT !.action = action]
                  ELSE IF w.raised # "none"
                  THEN /\ portfolio' = w.p
                       /\ ret' = [Returned("step", w.raised, 0, FALSE)
                                     EXCEPT !.reward_error = w.error,
                                            !.action = action]
                  ELSE /\ portfolio' = w.p
                       /\ ret' = [Returned("step", "none", w.reward, StepDone(step))
                                     EXCEPT !.reward_error = w.error,
                                            !.obs = GetObservation(step),
                                            !.action = action]
               /\ nops' = nops + 1

Next ==
    \/ DoBuy
    \/ DoSell
    \/ DoAdjustRiskLimit
    \/ DoAdjustGrowthLimit
    \/ DoRebalance
    \/ DoStopTrading
    \/ EnvReset
    \/ EnvStep

Spec == Init /\ [][Next]_vars

\* any sequence of adjust_risk_limit calls on the EnhancedPortfolio, of any length
AdjustRiskLimitCall ==
    \E performance \in PerformanceValues, volatility \in VolatilityValues :
        LET r == Result("ok", AdjustRiskLimit(portfolio, performance, volatility))
        IN  /\ portfolio.kind = "enhanced"
            /\ portfolio' = r.p
            /\ calls' = <<Call("adjust_risk_limit", "", 0, 0, 0, portfolio, r)>>
            /\ ret' = Returned("adjust_risk_limit", "none", 0, FALSE)
            /\ UNCHANGED <<current_step, nops>>

SpecRisk == Init /\ [][AdjustRiskLimitCall]_vars

\* entries of the vectors handed to _normalize on its own
VecValues == {-500, 0, 1, 250, 1000}

\* _normalize applied to any non-empty vector of at most MaxVecLen entries
NormalizeCall ==
    \E n \in 1..MaxVecLen :
        \E data \in [1..n -> VecValues] :
            /\ calls' = <<[op |-> "normalize", data |-> data]>>
            /\ ret' = [Returned("normalize", "none", 0, FALSE)
                          EXCEPT !.obs = Normalize(data)]
            /\ UNCHANGED <<portfolio, current_step, nops>>

SpecNormalize == Init /\ [][NormalizeCall]_vars

\* symbols bought before the portfolio is valued; DOGE stands for a symbol
\* outside the mock price table
ValueSymbols == {"BTC", "ETH", "DOGE"}
ValueQuantities == {100, 500}

\* get_current_price: the fixed mock prices, in cents, 0 for any other symbol
GetCurrentPrice(symbol) ==
    IF symbol = "BTC" THEN 30000 * PriceUnit
    ELSE IF symbol = "ETH" THEN 2000 * PriceUnit
    ELSE 0

\* sum of quantity * price(symbol) over the symbols of S held in h
RECURSIVE SumHoldings(_, _, _)
SumHoldings(h, price, S) ==
    IF S = {} THEN 0
    ELSE LET symbol == CHOOSE x \in S : TRUE
         IN  Notional(price[symbol], h[symbol]) + SumHoldings(h, price, S \ {symbol})

\* MockPortfolio.get_total_value(): balance plus the holdings at the mock prices
MockGetTotalValue(p) ==
    p.balance + SumHoldings(p.holdings,
                            [symbol \in DOMAIN p.holdings |-> GetCurrentPrice(symbol)],
                            DOMAIN p.holdings)

\* portfolio.get_total_value() without argument; EnhancedPortfolio has no
\* such method
GetTotalValueNoArgument(p) ==
    IF p.kind = "mock" THEN [out |-> "ok", value |-> MockGetTotalValue(p)]
    ELSE [out |-> "AttributeError", value |-> 0]

\* price tables handed to get_total_value: one without DOGE, one complete
PriceTables ==
    {[symbol \in {"BTC", "ETH"} |-> 10000], [symbol \in ValueSymbols |-> 10000]}

\* a buy on the portfolio that is valued afterwards, without slippage
ValueBuy ==
    /\ nops < MaxOps
    /\ \E symbol \in ValueSymbols, quantity \in ValueQuantities :
           LET r == Buy(portfolio, symbol, 10000, quantity, 0)
           IN  /\ portfolio' = r.p
               /\ calls' = <<Call("buy", symbol, 10000, quantity, 0, portfolio, r)>>
               /\ ret' = Returned("buy", Raised(r.out), 0, FALSE)
               /\ nops' = nops + 1
               /\ UNCHANGED current_step

\* get_total_value called with a price table, as __init__ and
\* _calculate_reward call it, or with no argument, as MockPortfolio defines it
GetTotalValueCall ==
    \E current_prices \in PriceTables, with_prices \in BOOLEAN :
        LET v == IF with_prices THEN GetTotalValue(portfolio, current_prices)
                 ELSE GetTotalValueNoArgument(portfolio)
        IN  /\ calls' = <<[op |-> "get_total_value", with_prices |-> with_prices,
                           current_prices |-> current_prices, out |-> v.out,
                           value |-> v.value]>>
            /\ ret' = Returned("get_total_value", Raised(v.out), 0, FALSE)
            /\ UNCHANGED <<portfolio, current_step, nops>>

NextValue == ValueBuy \/ GetTotalValueCall

SpecValue == Init /\ [][NextValue]_vars

\* MockPortfolio(initial_balance=0); EnhancedPortfolio always starts at 10000
\* and its risk check keeps every buy below a tenth of the balance
MockInitZero == [MockInit EXCEPT !.balance = 0]

\* calculate_risk: total_investment / balance, kept as the pair
\* <<total_investment, balance>>.  With balance = 0 the division of Python
\* numbers raises ZeroDivisionError, while numpy floats (prices read from a
\* DataFrame) give inf, or nan for 0 / 0, without raising: the pair then has
\* denominator 0.
CalculateRisk(p, price, quantity, numpy) ==
    LET total_investment == Notional(price, quantity)
    IN  IF p.balance = 0 /\ ~numpy
        THEN [out |-> "ZeroDivisionError", risk |-> <<0, 1>>]
        ELSE [out |-> "ok", risk |-> <<total_investment, p.balance>>]

CalculateRiskCall ==
    \E price \in Prices, quantity \in Quantities, numpy \in BOOLEAN :
        LET r == CalculateRisk(portfolio, price, quantity, numpy)
        IN  /\ calls' = <<[op |-> "calculate_risk", price |-> price,
                           quantity |-> quantity, numpy |-> numpy,
                           out |-> r.out, risk |-> r.risk]>>
            /\ ret' = Returned("calculate_risk", Raised(r.out), 0, FALSE)
            /\ UNCHANGED <<portfolio, current_step, nops>>

InitZeroBalance ==
    /\ portfolio \in {EnhancedInit, MockInit, MockInitZero}
    /\ current_step = 0
    /\ calls = <<>>
    /\ ret = Returned("init", "none", 0, FALSE)
    /\ nops = 0

NextZeroBalance == DoBuy \/ DoSell \/ CalculateRiskCall

SpecZeroBalance == InitZeroBalance /\ [][NextZeroBalance]_vars

\* the environment driven through reset and step only
NextEnv == EnvStep \/ EnvReset

SpecEnv == Init /\ [][NextEnv]_vars

\* positive actions of the agent, in 1/ActionUnit: 0.05, 0.10, 0.15, 1
BuyActions == {1, 2, 3, 20}

\* a buy as step issues it for action a > 0 on a bar of the timeline:
\* quantity = a * balance / price at the bar's close, slippage draw 0
StepBuyCall ==
    /\ nops < MaxOps
    /\ \E asset \in Symbols, a \in BuyActions, t \in 0..(NumBars - 1) :
           LET price == Close(asset, t)
               quantity == BuyQuantity(portfolio, a, price)
               r == Buy(portfolio, asset, price, quantity, 0)
           IN  /\ portfolio' = r.p
               /\ calls' = <<[op |-> "step_buy", action |-> a, symbol |-> asset,
                               price |-> price, quantity |-> quantity,
                               out |-> r.out, before |-> portfolio, after |-> r.p]>>
               /\ ret' = Returned("buy", Raised(r.out), 0, FALSE)
               /\ nops' = nops + 1
               /\ UNCHANGED current_step

NextStepBuy == StepBuyCall \/ DoAdjustRiskLimit

SpecStepBuy == Init /\ [][NextStepBuy]_vars

\* the one price each symbol trades at when prices are held fixed, in cents
FixedPrice(symbol) == IF symbol = "BTC" THEN 10000 ELSE 12000

\* the last call, kept behind the new one
LastCall == IF calls = <<>> THEN <<>> ELSE <<calls[Len(calls)]>>

\* buy at the symbol's fixed price, slippage draw 0
FixedPriceBuy ==
    /\ nops < MaxOps
    /\ \E symbol \in Symbols, quantity \in Quantities :
           LET r == Buy(portfolio, symbol, FixedPrice(symbol), quantity, 0)
           IN  /\ portfolio' = r.p
               /\ calls' = Append(LastCall, Call("fixed_buy", symbol, FixedPrice(symbol),
                                                 quantity, 0, portfolio, r))
               /\ ret' = Returned("buy", Raised(r.out), 0, FALSE)
               /\ nops' = nops + 1
               /\ UNCHANGED current_step

\* sell at the symbol's fixed price, slippage draw 0
FixedPriceSell ==
    /\ nops < MaxOps
    /\ \E symbol \in Symbols, quantity \in Quantities :
           LET r == Sell(portfolio, symbol, FixedPrice(symbol), quantity, 0)
           IN  /\ portfolio' = r.p
               /\ calls' = Append(LastCall, Call("fixed_sell", symbol, FixedPrice(symbol),
                                                 quantity, 0, portfolio, r))
               /\ ret' = Returned("sell", Raised(r.out), 0, FALSE)
               /\ nops' = nops + 1
               /\ UNCHANGED current_step

NextFixedPrice == FixedPriceBuy \/ FixedPriceSell

SpecFixedPrice == Init /\ [][NextFixedPrice]_vars

\* Two environment instances built as create_env / make_env build them:
\* every instance is handed the one portfolio object of train_agent.  Here
\* portfolio is the heap, objects[ref[i]] being the self.portfolio of
\* instance i, and current_step[i] its own step counter.  Instances living
\* in one process alias the object (ref = <<1, 1>>); instances moved into
\* worker processes by the vectorized environment each work on a pickled
\* copy (ref = <<1, 2>>).
Instances == {1, 2}

InitInstances ==
    /\ \E p \in {EnhancedInit, MockInit}, ref \in {<<1, 1>>, <<1, 2>>} :
           portfolio = [objects |-> <<p, p>>, ref |-> ref]
    /\ current_step = <<0, 0>>
    /\ calls = <<>>
    /\ ret = Returned("init", "none", 0, FALSE)
    /\ nops = 0

\* the portfolio instance i works on
PortfolioOf(heap, i) == heap.objects[heap.ref[i]]

\* an operation of instance i, with what the other instance observes of its
\* portfolio before and after
InstanceCall(op, i, heap_before, heap_after) ==
    [op |-> op, instance |-> i,
     other_before |-> PortfolioOf(heap_before, 3 - i),
     other_after |-> PortfolioOf(heap_after, 3 - i)]

\* MultiAssetTradingEnv.step on instance i, slippage draws all 0
InstanceStep ==
    /\ nops < MaxOps
    /\ \E i \in Instances, action \in [1..Len(Assets) -> ActionValues] :
           LET step == current_step[i] + 1
               r == StepLoop(1, PortfolioOf(portfolio, i), <<>>, action,
                             [k \in 1..Len(Assets) |-> 0], step)
               w == CalculateReward(r.p, step)
               heap == [portfolio EXCEPT !.objects[portfolio.ref[i]] =
                                           IF r.raised # "none" THEN r.p ELSE w.p]
           IN  /\ current_step[i] <= NumBars
               /\ current_step' = [current_step EXCEPT ![i] = step]
               /\ portfolio' = heap
               /\ calls' = <<InstanceCall("instance_step", i, portfolio, heap)>>
               /\ ret' = IF r.raised # "none"
                         THEN Returned("step", r.raised, 0, FALSE)
                         ELSE [Returned("step", "none", w.reward, StepDone(step))
                                 EXCEPT !.reward_error = w.error,
                                        !.obs = GetObservation(step)]
               /\ nops' = nops + 1

\* MultiAssetTradingEnv.reset on instance i
InstanceReset ==
    /\ nops < MaxOps
    /\ \E i \in Instances :
           LET r == Reset(PortfolioOf(portfolio, i))
               heap == [portfolio EXCEPT !.objects[portfolio.ref[i]] = r.p]
           IN  /\ current_step' = [current_step EXCEPT ![i] = 0]
               /\ portfolio' = heap
               /\ calls' = <<InstanceCall("instance_reset", i, portfolio, heap)>>
               /\ ret' = IF r.out = "ok"
                         THEN [Returned("reset", "none", 0, FALSE)
                                 EXCEPT !.obs = GetObservation(0)]
                         ELSE Returned("reset", r.out, 0, FALSE)
               /\ nops' = nops + 1

NextInstances == InstanceStep \/ InstanceReset

SpecInstances == InitInstances /\ [][NextInstances]_vars

---------------------------------------------------------------------------
(* Properties.  calls holds the portfolio calls made by the last operation, *)
(* each with the portfolio before and after it.                             *)

CallsOf(op) == {i \in 1..Len(calls) : calls[i].op = op}

\* balance and holdings are the same before and after call c
Untouched(c) ==
    /\ c.after.balance = c.before.balance
    /\ c.after.holdings = c.before.holdings

\* the holdings of every symbol but c.symbol are the same before and after c
OthersKept(c) ==
    \A s \in Symbols \ {c.symbol} :
        /\ (s \in DOMAIN c.after.holdings) = (s \in DOMAIN c.before.holdings)
        /\ Get(c.after.holdings, s) = Get(c.before.holdings, s)

\* price * quantity / balance <= risk_limit, at the price the caller passed
RiskWithin(c) ==
    ~FracLess(c.before.risk_limit, RiskUnit,
              Notional(c.price, c.quantity), c.before.balance)

\* the position after the buy, over the cash alone, is within growth_limit;
\* the allocation fraction (over cash plus holdings) can only be smaller
GrowthWithin(c) ==
    ~FracLess(c.before.growth_limit, GrowthUnit,
              Notional(c.price, Get(c.before.holdings, c.symbol) + c.quantity),
              c.before.balance)

\* C1: a buy of a positive quantity, without slippage, from a portfolio whose
\* entries are all positive, whose risk is within risk_limit, whose allocation
\* is within growth_limit and whose total cost is within the balance succeeds, takes exactly total_cost from the balance, adds
\* exactly quantity to holdings[symbol] and changes no other holding; holds of
\* every reachable state, also when symbols are already held.
C1_BuySucceeds ==
    \A i \in CallsOf("buy") :
        LET c == calls[i]
            total_cost == WithFee(Notional(c.price, c.quantity))
        IN  ( /\ c.slip = 0
              /\ c.quantity > 0
              /\ c.before.balance > 0
              /\ \A s \in DOMAIN c.before.holdings : c.before.holdings[s] > 0
              /\ c.before.kind = "enhanced" => RiskWithin(c) /\ GrowthWithin(c)
              /\ total_cost <= c.before.balance )
            => /\ c.out = "ok"
               /\ c.after.balance = c.before.balance - total_cost
               /\ Get(c.after.holdings, c.symbol)
                     = Get(c.before.holdings, c.symbol) + c.quantity
               /\ OthersKept(c)

\* C2: on the portfolio that has a risk_limit, a buy whose risk (at the
\* execution price) exceeds risk_limit raises RiskExceeded; and on either
\* portfolio every buy that raises leaves balance and holdings as they were
\* before the call.
C2_FailedBuyUnchanged ==
    \A i \in CallsOf("buy") :
        LET c == calls[i]
        IN  /\ c.out # "ok" => Untouched(c)
            /\ ( /\ c.before.kind = "enhanced"
                  /\ c.before.balance > 0
                  /\ FracLess(c.before.risk_limit, RiskUnit,
                              Notional(ApplySlippage(c.price, c.slip), c.quantity),
                              c.before.balance) )
               => c.out = "RiskExceeded"

\* a buy over the risk limit was rejected while a symbol was held
C2_Witness ==
    \E i \in CallsOf("buy") :
        /\ calls[i].out = "RiskExceeded"
        /\ calls[i].quantity > 0
        /\ DOMAIN calls[i].before.holdings # {}
        /\ portfolio.balance < InitialBalance

\* C3: a sell of more than holdings.get(symbol, 0) raises InsufficientHoldings
\* and leaves balance and holdings as they were.
C3_OversellRejected ==
    \A i \in CallsOf("sell") :
        LET c == calls[i]
        IN  c.quantity > Get(c.before.holdings, c.symbol)
            => c.out = "InsufficientHoldings" /\ Untouched(c)

\* a sell of more than the positive quantity held was rejected
C3_Witness ==
    \E i \in CallsOf("sell") :
        LET c == calls[i]
        IN  /\ Get(c.before.holdings, c.symbol) > 0
            /\ c.quantity > Get(c.before.holdings, c.symbol)
            /\ c.out = "InsufficientHoldings"

\* C4: a successful sell of a positive quantity without slippage adds price*quantity*(1-fee_rate) to
\* the balance, takes quantity from holdings[symbol], and removes the symbol
\* from holdings when nothing of it is left.
C4_SellEffect ==
    \A i \in CallsOf("sell") :
        LET c == calls[i]
            left == Get(c.before.holdings, c.symbol) - c.quantity
        IN  (c.out = "ok" /\ c.slip = 0 /\ c.quantity > 0)
            => /\ c.after.balance
                    = c.before.balance + LessFee(Notional(c.price, c.quantity))
               /\ IF left = 0 THEN c.symbol \notin DOMAIN c.after.holdings
                  ELSE /\ c.symbol \in DOMAIN c.after.holdings
                       /\ c.after.holdings[c.symbol] = left
               /\ OthersKept(c)

\* C5: every entry of holdings is strictly positive in every reachable state.
C5_HoldingsPositive ==
    \A s \in DOMAIN portfolio.holdings : portfolio.holdings[s] > 0

\* C6: the balance is never negative.
C6_BalanceNonNegative == portfolio.balance >= 0

\* a buy was rejected for insufficient balance after an earlier trade went through
C6_Witness ==
    /\ portfolio.balance # InitialBalance
    /\ \E i \in CallsOf("buy") :
          /\ calls[i].out = "InsufficientBalance"
          /\ WithFee(Notional(calls[i].price, calls[i].quantity)) > portfolio.balance

\* C7: a buy that returns leaves the balance strictly smaller, a sell that
\* returns leaves it strictly larger.
C7_StrictBalanceChange ==
    /\ \A i \in CallsOf("buy") :
          calls[i].out = "ok" => calls[i].after.balance < calls[i].before.balance
    /\ \A i \in CallsOf("sell") :
          calls[i].out = "ok" => calls[i].after.balance > calls[i].before.balance

\* C8: while trading_active is false every buy and every sell raises
\* TradingHalted and leaves balance and holdings as they were.
C8_HaltedTradesFail ==
    \A i \in CallsOf("buy") \cup CallsOf("sell") :
        ~calls[i].before.trading_active
        => calls[i].out = "TradingHalted" /\ Untouched(calls[i])

\* C9: once trading_active is false it stays false through every operation
\* but reset, and reset succeeds and leaves trading_active true.
C9_HaltedUntilReset ==
    \A i \in 1..Len(calls) :
        LET c == calls[i]
        IN  /\ (~c.before.trading_active /\ c.op # "reset")
                 => ~c.after.trading_active
            /\ (~c.before.trading_active /\ c.op = "reset")
                 => c.out = "ok" /\ c.after.trading_active

\* C10: after any sequence of adjust_risk_limit calls from the initial 0.05,
\* risk_limit lies within [0.01, 0.10].
C10_RiskLimitInRange ==
    portfolio.kind = "enhanced"
    => RiskMin <= portfolio.risk_limit /\ portfolio.risk_limit <= RiskMax

\* a call took risk_limit from below 0.10 onto the upper clamp
C10_Witness ==
    /\ Len(calls) = 1
    /\ calls[1].op = "adjust_risk_limit"
    /\ calls[1].before.risk_limit < RiskMax
    /\ (calls[1].before.risk_limit * 11 * 105) \div 1000 > RiskMax
    /\ portfolio.risk_limit = RiskMax

\* C11: growth_limit lies within [0.30, 0.80] in every reachable portfolio
\* state, at construction and after any sequence of adjust_growth_limit calls
\* with trend_strength in [0, 1].
C11_GrowthLimitInRange ==
    portfolio.kind = "enhanced"
    => GrowthBase <= portfolio.growth_limit /\ portfolio.growth_limit <= GrowthMax

\* C12: in step, a failure while processing one asset never aborts the step:
\* whatever the portfolio call or the bar lookup raised, step returns a result
\* to the caller.
C12_AssetFailureNeverAborts ==
    ret.op = "step" => ret.raised = "none"

\* C13: every runtime error inside the step loop is absorbed, so an episode
\* over NumBars bars completes: a step onto a bar of the timeline never
\* raises, and its done is true exactly on the last bar.
C13_EpisodeCompletes ==
    (ret.op = "step" /\ current_step <= NumBars - 1)
    => /\ ret.raised = "none"
       /\ ret.done <=> current_step = NumBars - 1

\* C14: a step that returns has done = true if and only if current_step,
\* after the increment, is the last valid index NumBars - 1; done is false on
\* every earlier step, and truncated is always false.
C14_DoneAtLastBar ==
    (ret.op = "step" /\ ret.raised = "none")
    => /\ ret.done <=> current_step = NumBars - 1
       /\ ~ret.truncated

\* a step that returned done = true, on the last bar
C14_Witness ==
    /\ ret.op = "step"
    /\ ret.raised = "none"
    /\ ret.done
    /\ current_step = NumBars - 1

\* C15: current_step is always a valid index of the shared timeline,
\* 0 <= current_step <= NumBars - 1 in every reachable state, also when step
\* is invoked again after done was returned.
C15_StepIndexValid ==
    0 <= current_step /\ current_step <= NumBars - 1

\* balance plus the holdings valued at the close prices of bar t, the value
\* _calculate_reward asks get_total_value(current_prices) for
RECURSIVE HoldingsValue(_, _, _)
HoldingsValue(p, t, i) ==
    IF i > Len(Assets) THEN 0
    ELSE Notional(Close(Assets[i], t), Get(p.holdings, Assets[i]))
         + HoldingsValue(p, t, i + 1)

CurrentTotalValue(p, t) == p.balance + HoldingsValue(p, t, 1)

\* (current_value - previous_value) / max(previous_value, 1e-8) in RewardUnit,
\* rounded towards zero, for previous_value of at least one mill
RewardFormula(current_value, previous_value) ==
    IF current_value >= previous_value
    THEN MulDiv(current_value - previous_value, RewardUnit, previous_value)
    ELSE -MulDiv(previous_value - current_value, RewardUnit, previous_value)

\* C16: a step in which no error occurs returns the reward
\* (current_total_value - previous_value) / max(previous_value, 1e-8), the
\* value taken at the current step's close prices, and leaves previous_value
\* equal to current_total_value.  The reward is compared on the first step
\* after construction, where previous_value is the initial balance.
C16_RewardFormula ==
    (/\ ret.op = "step"
     /\ ret.raised = "none"
     /\ \A i \in 1..Len(calls) : calls[i].out = "ok")
    => /\ portfolio.previous_value = CurrentTotalValue(portfolio, current_step)
       /\ nops = 1
            => ret.reward = RewardFormula(CurrentTotalValue(portfolio, current_step),
                                          InitialBalance)

\* C17: a step whose action is all zeros, in which no trade occurs and nothing
\* is held, returns the reward 0.
C17_ZeroActionZeroReward ==
    (/\ ret.op = "step"
     /\ ret.raised = "none"
     /\ calls = <<>>
     /\ \A s \in Symbols : Get(portfolio.holdings, s) = 0)
    => ret.reward = 0

\* C18: an exception raised during the reward computation yields the fixed
\* fallback reward -1 and never leaves step.
C18_RewardErrorFallback ==
    (ret.op = "step" /\ ret.reward_error # "none")
    => /\ ret.raised = "none"
       /\ ret.reward = -RewardUnit

\* a step whose reward computation raised and which returned -1
C18_Witness ==
    /\ ret.op = "step"
    /\ ret.reward_error = "AttributeError"
    /\ ret.raised = "none"
    /\ ret.reward = -RewardUnit

\* C19: from any reachable state, the environment's reset sets current_step
\* to 0, resets the portfolio (balance = initial balance, holdings empty,
\* trading_active = true) without error, and returns the observation of bar 0.
C19_ResetRestores ==
    ret.op = "reset"
    => /\ ret.raised = "none"
       /\ current_step = 0
       /\ portfolio.balance = InitialBalance
       /\ portfolio.holdings = EmptyHoldings
       /\ portfolio.trading_active
       /\ ret.obs = Concatenate(1, 0)

\* C20: building the observation never surfaces a failure, and every
\* observation returned by reset or step has exactly the declared observation
\* shape, num_assets * (columns - 1).
C20_ObservationShape ==
    (ret.op \in {"reset", "step"} /\ ret.raised = "none")
    => Len(ret.obs) = ObservationShape

\* C21: _normalize maps a vector with max # min into [-1, 1], its minimum
\* to -1 and its maximum to 1, and a constant vector to zeros of the same
\* length.
C21_NormalizeRange ==
    ret.op = "normalize"
    => LET data == calls[1].data
           out == ret.obs
           values == {data[i] : i \in 1..Len(data)}
       IN  /\ Len(out) = Len(data)
           /\ IF \E x, y \in values : x # y
              THEN \A i \in 1..Len(data) :
                      /\ -ObsUnit <= out[i] /\ out[i] <= ObsUnit
                      /\ (\A x \in values : data[i] <= x) => out[i] = -ObsUnit
                      /\ (\A x \in values : data[i] >= x) => out[i] = ObsUnit
              ELSE \A i \in 1..Len(data) : out[i] = 0

\* a vector with three different entries was normalized, the middle one
\* strictly inside the range
C21_Witness ==
    /\ ret.op = "normalize"
    /\ calls[1].data = <<250, -500, 1000>>
    /\ ret.obs = <<0, -ObsUnit, ObsUnit>>

\* C22: get_total_value(current_prices) returns balance plus the sum over the
\* held symbols of holdings[s] * current_prices[s], and signals an error when
\* a held symbol has no price rather than valuing it at 0.
C22_TotalValue ==
    ret.op = "get_total_value"
    => LET c == calls[1]
           held == DOMAIN portfolio.holdings
       IN  /\ (c.with_prices /\ held \subseteq DOMAIN c.current_prices)
                => /\ c.out = "ok"
                   /\ c.value = portfolio.balance
                                + SumHoldings(portfolio.holdings, c.current_prices, held)
           /\ (c.with_prices /\ ~(held \subseteq DOMAIN c.current_prices))
                => c.out = "PriceUnavailable"
           /\ (~c.with_prices /\ \E symbol \in held : GetCurrentPrice(symbol) = 0)
                => c.out # "ok"

\* C23: with balance = 0, calculate_risk does not raise a division error but
\* gives an infinite risk, and a buy attempted with balance 0 is rejected and
\* leaves the state unchanged.
C23_ZeroBalanceRisk ==
    /\ (ret.op = "calculate_risk" /\ portfolio.balance = 0)
         => /\ calls[1].out = "ok"
            /\ calls[1].risk[2] = 0
    /\ (ret.op = "buy" /\ calls[1].before.balance = 0
        /\ calls[1].price > 0 /\ calls[1].quantity > 0)
         => /\ calls[1].out \in ValueErrors
            /\ Untouched(calls[1])

AssetIndex(symbol) == CHOOSE i \in 1..Len(Assets) : Assets[i] = symbol

\* C25: in step, current_step is incremented before any trade; in the fixed
\* asset order each trade uses the close price of the bar at the new
\* current_step, action[i] > 0 issues a buy of quantity
\* action[i] * balance / price, action[i] < 0 a sell of quantity
\* -action[i] * holdings.get(symbol, 0), and action[i] = 0 issues no trade for
\* that asset.
C25_StepTrades ==
    ret.op = "step"
    => /\ \A k \in 1..Len(calls) :
            LET c == calls[k]
                a == ret.action[AssetIndex(c.symbol)]
            IN  /\ c.price = Close(c.symbol, current_step)
                /\ a # 0
                /\ a > 0 => /\ c.op = "buy"
                            /\ c.quantity = MulDiv(c.before.balance, a,
                                                   StepScale * c.price)
                /\ a < 0 => /\ c.op = "sell"
                            /\ c.quantity = MulDiv(Get(c.before.holdings, c.symbol),
                                                   -a, ActionUnit)
                /\ k > 1 => AssetIndex(calls[k - 1].symbol) < AssetIndex(c.symbol)
       /\ ret.raised = "none"
            => \A i \in 1..Len(Assets) :
                  ret.action[i] # 0 => \E k \in 1..Len(calls) : calls[k].symbol = Assets[i]

\* a step onto the bar with the changed close price bought from a balance
\* that an earlier step had already lowered
C25_Witness ==
    /\ ret.op = "step"
    /\ current_step = 2
    /\ Len(calls) >= 1
    /\ calls[1].op = "buy"
    /\ calls[1].price = 12000
    /\ calls[1].quantity > 0
    /\ calls[1].before.balance < InitialBalance

\* C26: the environment's reset leaves previous_value, risk_limit and
\* growth_limit unchanged, so the first reward after a reset is measured
\* against the value recorded before it: the first step after a reset returns
\* a reward computed from the portfolio's values, not the error fallback.
C26_ResetFrame ==
    /\ \A k \in CallsOf("reset") :
          /\ calls[k].after.previous_value = calls[k].before.previous_value
          /\ calls[k].after.risk_limit = calls[k].before.risk_limit
          /\ calls[k].after.growth_limit = calls[k].before.growth_limit
    /\ (ret.op = "step" /\ current_step = 1 /\ nops >= 2)
         => /\ ret.raised = "none"
            /\ ret.reward_error = "none"

\* C27: a buy issued as step issues it for action a > 0 (quantity
\* a * balance / price, balance > 0, zero slippage) has risk a and total cost
\* a * balance * (1 + fee_rate): the risk-enforcing portfolio rejects it
\* whenever a > risk_limit, so never accepts a > 0.10, and the mock portfolio
\* rejects it for insufficient balance whenever a * (1 + fee_rate) > 1.
C27_StepBuyRejected ==
    \A k \in CallsOf("step_buy") :
        LET c == calls[k]
        IN  /\ (c.before.kind = "enhanced"
                /\ FracLess(c.before.risk_limit, RiskUnit, c.action, ActionUnit))
                 => c.out = "RiskExceeded" /\ Untouched(c)
            /\ (c.before.kind = "enhanced" /\ c.action * RiskUnit > RiskMax * ActionUnit)
                 => c.out # "ok"
            /\ (c.before.kind = "mock"
                /\ c.action * (FeeDen + FeeNum) > ActionUnit * FeeDen)
                 => c.out = "InsufficientBalance" /\ Untouched(c)

\* an action of 0.10 was rejected by a risk limit raised above 0.05 but
\* still below it
C27_Witness ==
    /\ Len(calls) = 1
    /\ calls[1].op = "step_buy"
    /\ calls[1].before.kind = "enhanced"
    /\ calls[1].action = 2
    /\ calls[1].before.risk_limit > InitialRiskLimit
    /\ calls[1].out = "RiskExceeded"

\* balance plus the holdings valued at the fixed prices
RECURSIVE FixedHoldingsValue(_, _)
FixedHoldingsValue(p, i) ==
    IF i > Len(Assets) THEN 0
    ELSE Notional(FixedPrice(Assets[i]), Get(p.holdings, Assets[i]))
         + FixedHoldingsValue(p, i + 1)

FixedValue(p) == p.balance + FixedHoldingsValue(p, 1)

\* price * quantity * fee_rate
Fee(c) == MulDiv(Notional(c.price, c.quantity), FeeNum, FeeDen)

====
